---- MODULE Spec2Model ----
(***************************************************************************)
(* Memo Cards game (loki20beta/games, memo-game): the deck builder, the    *)
(* match engine of GameScreen and the selection set of SelectionScreen.    *)
(*                                                                         *)
(* Every handler runs to completion on the single UI thread; a setTimeout  *)
(* callback is a separate step that runs later.  State is the committed    *)
(* React state the next handler's closure sees.                            *)
(***************************************************************************)
EXTENDS Integers, Sequences, FiniteSets, TLC

\* ------------------------------------------------------------------ bounds
\* largest totalCards handed to createGameCards by SpecDeck
MaxTotalCards == 6
\* longest image list handed to createGameCards by SpecDeck
MaxImages == 3
\* number of handleRestart calls explored in one game screen
MaxRestarts == 1
\* emoji id of the first pool item explored on the selection screen
PoolFirst == 8
\* number of consecutive emoji pool items explored on the selection screen
PoolSize == 4
\* number of delayed selection updates that may be pending at once
MaxPendingSelect == 2
\* longest carousel explored by SpecCarousel
MaxCarouselLen == 10
\* number of reposition callbacks that may be pending at once
MaxPendingReposition == 1
\* largest number of images the load effect delivers in SpecApp
MaxLoadedImages == 2
\* number of 300 ms step callbacks of HomeScreen that may be pending at once
MaxPendingStep == 3

\* --------------------------------------------------------------- constants
\* gridOptions '2x2': totalCards
GridTotalCards == 4
\* setTimeout delay of the match branch
MatchPause == 800
\* setTimeout delay of the mismatch branch
MismatchPause == 1500

VARIABLES
    routeSelectedImages,  \* route.params.selectedImages of GameScreen
    routeTotalCards,      \* route.params.totalCards of GameScreen
    gameCards,            \* useState([])  - the deck, a sequence of cards
    flippedCards,         \* useState([])  - ids of face-up unresolved cards
    isProcessing,         \* useState(false) - the processing lock
    matchedPairs,         \* useState(0)
    gameWon,              \* useState(false)
    timers,               \* pending setTimeout callbacks of handleCardPress
    wonEvents,            \* history: completion events of the current session
    restarts,             \* history: handleRestart calls so far
    availableImages,      \* SelectionScreen useState([]) after loading
    selectedImages,       \* SelectionScreen useState([])
    selectTimers,         \* pending 150 ms callbacks of handleImageSelect
    scrollX,              \* contentOffset.x of the carousel ScrollView
    repositionTimer,      \* pending 100 ms callback of handleScrollEnd
    screen,               \* the screen on top of the navigation stack
    flashing,             \* the Next button's flash animation loop is running
    home,                 \* HomeScreen state: grid size, image source, step
    stepTimers,           \* pending 300 ms callbacks of handleGridSelection
    route,                \* route.params of SelectionScreen
    event                 \* history: the handler or callback that ran last

gameVars == <<routeSelectedImages, routeTotalCards, gameCards, flippedCards,
              isProcessing, matchedPairs, gameWon, timers, wonEvents,
              restarts>>
selVars == <<availableImages, selectedImages, selectTimers>>
homeVars == <<home, stepTimers, route>>
uiVars == <<scrollX, repositionTimer, screen, flashing, homeVars>>
vars == <<gameVars, selVars, uiVars, event>>

\* --------------------------------------------------------- general helpers
Range(s) == {s[i] : i \in DOMAIN s}

\* Array.prototype.slice(0, n) for a non-negative integer n
SliceFirst(s, n) == SubSeq(s, 1, IF n < Len(s) THEN n ELSE Len(s))

\* the history record of the handler or callback that ran last
NoCard == <<>>
Ev(op, card) == [op |-> op, card |-> card]

\* ------------------------------------------------------------ deck builder
\* card id `card_${index}_a` / `card_${index}_b`
CardId(index, side) == <<index, side>>

NewCard(index, side, image) ==
    [id |-> CardId(index, side), pairId |-> index, image |-> image,
     isFlipped |-> FALSE, isMatched |-> FALSE]

\* slice() truncates its fractional end argument: totalCards / 2 rounded down
PairsNeeded(totalCards) == totalCards \div 2

\* no slice: every image given gets a pair
ImagesToUse_All(images, totalCards) == images

ImagesToUse(images, totalCards) == SliceFirst(images, PairsNeeded(totalCards))

\* the forEach loop: two cards per image, pairId = 0-based index of the image
CardPairs(imgs) ==
    [k \in 1..(2 * Len(imgs)) |->
        NewCard((k - 1) \div 2, IF k % 2 = 1 THEN "a" ELSE "b",
                imgs[(k + 1) \div 2])]

\* a swap that overwrites s[i] before saving it
Swap_Overwrite(s, i, j) ==
    [k \in DOMAIN s |-> IF k = i + 1 THEN s[j + 1] ELSE s[k]]

\* [s[i], s[j]] = [s[j], s[i]] on 0-based indexes
Swap(s, i, j) ==
    [k \in DOMAIN s |-> IF k = i + 1 THEN s[j + 1]
                        ELSE IF k = j + 1 THEN s[i + 1] ELSE s[k]]

\* the choices of j = floor(random * (i + 1)) for i = n-1 .. 1
ShuffleChoices(n) == [1..(n - 1) -> 0..(n - 1)]

\* the choices of a loop that draws j = floor(random * n) at every i
ValidChoices_WholeRange(n) == ShuffleChoices(n)

ValidChoices(n) == {ch \in ShuffleChoices(n) : \A i \in 1..(n - 1) : ch[i] <= i}

\* the Fisher-Yates loop from i down to 1 with the given choices
RECURSIVE ShuffleFrom(_, _, _)
ShuffleFrom(s, i, ch) ==
    IF i < 1 THEN s ELSE ShuffleFrom(Swap(s, i, ch[i]), i - 1, ch)

Shuffle(s, ch) == ShuffleFrom(s, Len(s) - 1, ch)

createGameCards(images, totalCards, ch) ==
    Shuffle(CardPairs(ImagesToUse(images, totalCards)), ch)

\* every deck createGameCards can return for these arguments
Decks(images, totalCards) ==
    LET pairs == CardPairs(ImagesToUse(images, totalCards))
    IN  {Shuffle(pairs, ch) : ch \in ValidChoices(Len(pairs))}

\* -------------------------------------------------------------- home screen
\* useState(null)
Null == "null"

\* gridOptions
gridOptions ==
    << [label |-> "Small", value |-> "2x2", totalCards |-> 4,
        rows |-> 2, cols |-> 2],
       [label |-> "Medium", value |-> "4x4", totalCards |-> 16,
        rows |-> 4, cols |-> 4],
       [label |-> "Big", value |-> "6x6", totalCards |-> 36,
        rows |-> 6, cols |-> 6] >>

GridValues == {gridOptions[i].value : i \in DOMAIN gridOptions}

\* imageSourceOptions
ImageSources == {"emoji", "gallery", "peppa", "bluey"}

\* gridOptions.find(option => option.value === gridValue)
FindGridOption(gridValue) ==
    gridOptions[CHOOSE i \in DOMAIN gridOptions :
                  /\ gridOptions[i].value = gridValue
                  /\ \A j \in 1..(i - 1) : gridOptions[j].value # gridValue]

\* const requiredImages = selectedGrid.totalCards / 2
RequiredImagesFor(totalCards) == totalCards \div 2

\* the params HomeScreen.handleNext navigates with
HomeParams(gridValue, sourceValue) ==
    LET selectedGrid == FindGridOption(gridValue) IN
    [gridSize |-> gridValue,
     imageSource |-> sourceValue,
     requiredImages |-> RequiredImagesFor(selectedGrid.totalCards),
     totalCards |-> selectedGrid.totalCards]

\* SelectionScreen is not mounted
NoRoute ==
    [gridSize |-> Null, imageSource |-> Null, requiredImages |-> 0,
     totalCards |-> 0]

\* HomeScreen as mounted
HomeFresh ==
    [selectedGridSize |-> Null, selectedImageSource |-> Null,
     currentStep |-> 1, flashing |-> FALSE]

\* HomeScreen after the user chose the 2x2 grid and the emoji source and
\* pressed Next: the configuration of the sessions explored below
HomeConfigured ==
    /\ home = [selectedGridSize |-> "2x2", selectedImageSource |-> "emoji",
               currentStep |-> 2, flashing |-> TRUE]
    /\ stepTimers = 0
    /\ route = HomeParams("2x2", "emoji")

\* a grid table with the card counts of the two larger grids exchanged
getGridConfiguration_Swapped(gridSize) ==
    IF gridSize = "4x4" THEN [rows |-> 4, columns |-> 4, totalCards |-> 36]
    ELSE IF gridSize = "6x6" THEN [rows |-> 6, columns |-> 6, totalCards |-> 16]
    ELSE [rows |-> 2, columns |-> 2, totalCards |-> 4]

\* GameScreen getGridConfiguration: configs[gridSize] || configs['2x2']
getGridConfiguration(gridSize) ==
    IF gridSize = "4x4" THEN [rows |-> 4, columns |-> 4, totalCards |-> 16]
    ELSE IF gridSize = "6x6" THEN [rows |-> 6, columns |-> 6, totalCards |-> 36]
    ELSE [rows |-> 2, columns |-> 2, totalCards |-> 4]

\* Math.ceil(a / b) for positive b
CeilDiv(a, b) == (a + b - 1) \div b

\* SelectionScreen getSelectionLayout
getSelectionLayout(gridSize, requiredImages) ==
    LET slotsPerRow == IF gridSize = "2x2" THEN 2
                       ELSE IF gridSize = "4x4" THEN 4 ELSE 6
    IN  [slotsPerRow |-> slotsPerRow,
         rows |-> CeilDiv(requiredImages, slotsPerRow),
         totalSlots |-> requiredImages]

\* a press on a grid button of step 1: handleGridSelection up to its
\* setTimeout
HandleGridSelection(gridValue) ==
    /\ screen = "Home"
    /\ home.currentStep = 1
    /\ stepTimers < MaxPendingStep
    /\ home' = [home EXCEPT !.selectedGridSize = gridValue]
    /\ stepTimers' = stepTimers + 1
    /\ event' = Ev("gridSelection", gridValue)
    /\ UNCHANGED <<route, scrollX, repositionTimer, screen, flashing,
                   gameVars, selVars>>

\* the 300 ms callback of handleGridSelection: setCurrentStep(2), then the
\* flash effect
FireStep ==
    /\ stepTimers > 0
    /\ stepTimers' = stepTimers - 1
    /\ home' = [home EXCEPT
                  !.currentStep = 2,
                  !.flashing = IF home.currentStep # 2
                                  /\ home.selectedImageSource # Null
                               THEN TRUE ELSE @]
    /\ event' = Ev("stepTimer", NoCard)
    /\ UNCHANGED <<route, scrollX, repositionTimer, screen, flashing,
                   gameVars, selVars>>

\* a press on an image source button of step 2: handleImageSourceSelection,
\* then the flash effect
HandleImageSourceSelection(sourceValue) ==
    /\ screen = "Home"
    /\ home.currentStep = 2
    /\ home' = [home EXCEPT
                  !.selectedImageSource = sourceValue,
                  !.flashing = IF home.selectedImageSource # sourceValue
                               THEN TRUE ELSE @]
    /\ event' = Ev("imageSourceSelection", sourceValue)
    /\ UNCHANGED <<stepTimers, route, scrollX, repositionTimer, screen,
                   flashing, gameVars, selVars>>

\* a press on the enabled Next button of step 2: HomeScreen.handleNext, then
\* the mount of SelectionScreen, whose lists are empty until images load
HomeNext ==
    /\ screen = "Home"
    /\ home.currentStep = 2
    /\ home.selectedImageSource # Null
    /\ route' = HomeParams(home.selectedGridSize, home.selectedImageSource)
    /\ screen' = "Selection"
    /\ event' = Ev("homeNext", NoCard)
    /\ UNCHANGED <<home, stepTimers, scrollX, repositionTimer, flashing,
                   gameVars, selVars>>

\* a press on the back button of step 2: HomeScreen.handleBack
HomeBack ==
    /\ screen = "Home"
    /\ home.currentStep = 2
    /\ home' = [home EXCEPT !.currentStep = 1,
                            !.selectedImageSource = Null,
                            !.flashing = FALSE]
    /\ event' = Ev("homeBack", NoCard)
    /\ UNCHANGED <<stepTimers, route, scrollX, repositionTimer, screen,
                   flashing, gameVars, selVars>>

\* a press on the back button of SelectionScreen before any image is loaded:
\* navigation.goBack()
SelectionBack ==
    /\ screen = "Selection"
    /\ screen' = "Home"
    /\ route' = NoRoute
    /\ event' = Ev("selectionBack", NoCard)
    /\ UNCHANGED <<home, stepTimers, scrollX, repositionTimer, flashing,
                   gameVars, selVars>>

\* -------------------------------------------------------------- game screen

\* the images and card count SelectionScreen.handleNext navigates with
GameImages == [i \in 1..(GridTotalCards \div 2) |-> PoolFirst + i - 1]

CardById(cards, id) == cards[CHOOSE i \in DOMAIN cards :
                               /\ cards[i].id = id
                               /\ \A j \in 1..(i - 1) : cards[j].id # id]

\* gameCards.map(c => c.id === card.id ? { ...c, isFlipped: true } : c)
FlipUp(cards, id) ==
    [k \in DOMAIN cards |->
        IF cards[k].id = id THEN [cards[k] EXCEPT !.isFlipped = TRUE]
        ELSE cards[k]]

\* marks only the first card of the pair
MarkMatched_FirstOnly(cards, id1, id2) ==
    [k \in DOMAIN cards |->
        IF cards[k].id = id1
        THEN [cards[k] EXCEPT !.isMatched = TRUE] ELSE cards[k]]

\* prevCards.map(c => (c.id === card1.id || c.id === card2.id)
\*                      ? { ...c, isMatched: true } : c)
MarkMatched(cards, id1, id2) ==
    [k \in DOMAIN cards |->
        IF cards[k].id = id1 \/ cards[k].id = id2
        THEN [cards[k] EXCEPT !.isMatched = TRUE] ELSE cards[k]]

\* turns only the second card back
FlipBack_SecondOnly(cards, id1, id2) ==
    [k \in DOMAIN cards |->
        IF cards[k].id = id2
        THEN [cards[k] EXCEPT !.isFlipped = FALSE] ELSE cards[k]]

\* prevCards.map(c => (c.id === card1.id || c.id === card2.id)
\*                      ? { ...c, isFlipped: false } : c)
FlipBack(cards, id1, id2) ==
    [k \in DOMAIN cards |->
        IF cards[k].id = id1 \/ cards[k].id = id2
        THEN [cards[k] EXCEPT !.isFlipped = FALSE] ELSE cards[k]]

\* Card.handlePress: the tap reaches onPress only when the card is enabled
CardPressEnabled(card, disabled) == ~disabled /\ ~card.isMatched

\* early returns that do not look at card.isFlipped
PressAccepted_IgnoresFaceUp(card, processing, flipped) ==
    /\ ~(processing \/ card.isMatched)
    /\ ~(Len(flipped) >= 2)

\* handleCardPress: the two early returns
PressAccepted(card, processing, flipped) ==
    /\ ~(processing \/ card.isFlipped \/ card.isMatched)
    /\ ~(Len(flipped) >= 2)

\* the tap of Card.handlePress reaches handleCardPress and passes its guards
PressGoesThrough_NoLock(card, processing, flipped) ==
    ~(card.isFlipped \/ card.isMatched)

PressGoesThrough_NoFaceUpCheck(card, processing, flipped) ==
    /\ ~processing /\ ~card.isMatched
    /\ ~(Len(flipped) >= 2)

PressGoesThrough(card, processing, flipped) ==
    /\ CardPressEnabled(card, processing)
    /\ PressAccepted(card, processing, flipped)

\* a win check without the guards on an empty deck and an empty counter
WinEffectFires_NoEmptyGuard(cards, pairs) == 2 * pairs = Len(cards)

\* a win check that also fires once the counter has passed the pair count
WinEffectFires_AtLeast(cards, pairs) ==
    /\ Len(cards) > 0
    /\ pairs > 0
    /\ 2 * pairs >= Len(cards)

\* the win-condition effect, run after a commit that changed matchedPairs or
\* gameCards.length: TRUE when it calls setGameWon(true)
WinEffectFires(cards, pairs) ==
    /\ Len(cards) > 0
    /\ pairs > 0
    /\ 2 * pairs = Len(cards)

Delay(t) == IF t.kind = "match" THEN MatchPause ELSE MismatchPause

\* a pending callback can run next unless one scheduled before it is due first
CanFire(i) ==
    /\ i \in DOMAIN timers
    /\ \A j \in 1..(i - 1) : Delay(timers[j]) > Delay(timers[i])

RemoveAt(s, i) == SubSeq(s, 1, i - 1) \o SubSeq(s, i + 1, Len(s))

\* the init effect of GameScreen has run: the state a mounted screen shows
GameMounted ==
    /\ routeSelectedImages = GameImages
    /\ routeTotalCards = GridTotalCards
    /\ gameCards \in Decks(routeSelectedImages, routeTotalCards)
    /\ flippedCards = <<>>
    /\ isProcessing = FALSE
    /\ matchedPairs = 0
    /\ gameWon = FALSE
    /\ timers = <<>>
    /\ wonEvents = 0
    /\ restarts = 0

\* the game screen is not on the navigation stack
GameAbsent ==
    /\ routeSelectedImages = <<>>
    /\ routeTotalCards = 0
    /\ gameCards = <<>>
    /\ flippedCards = <<>>
    /\ isProcessing = FALSE
    /\ matchedPairs = 0
    /\ gameWon = FALSE
    /\ timers = <<>>
    /\ wonEvents = 0
    /\ restarts = 0

\* the selection screen is not on the navigation stack
SelectionAbsent ==
    /\ availableImages = <<>>
    /\ selectedImages = <<>>
    /\ selectTimers = <<>>

\* the carousel rests at offset 0, no reposition is pending and the Next
\* button does not flash
CarouselIdle ==
    /\ scrollX = 0
    /\ repositionTimer = <<>>
    /\ flashing = FALSE

\* a tap on the card rendered at position i: Card.handlePress, then
\* handleCardPress with the card object of the current render; the scheduled
\* callback remembers the number of restarts before it was scheduled
PressCard(i) ==
    /\ i \in DOMAIN gameCards
    /\ LET card == gameCards[i]
           updatedCards == FlipUp(gameCards, card.id)
           newFlippedCards == Append(flippedCards, card.id)
       IN  /\ event' = Ev("press", card.id)
           /\ IF PressGoesThrough(card, isProcessing, flippedCards)
              THEN /\ gameCards' = updatedCards
                   /\ flippedCards' = newFlippedCards
                   /\ IF Len(newFlippedCards) = 2
                      THEN LET card1 == CardById(updatedCards, newFlippedCards[1])
                               card2 == CardById(updatedCards, newFlippedCards[2])
                               kind == IF card1.pairId = card2.pairId
                                       THEN "match" ELSE "mismatch"
                           IN  /\ isProcessing' = TRUE
                               /\ timers' = Append(timers,
                                     [kind |-> kind, c1 |-> card1.id,
                                      c2 |-> card2.id,
                                      session |-> restarts])
                      ELSE UNCHANGED <<isProcessing, timers>>
              ELSE UNCHANGED <<gameCards, flippedCards, isProcessing, timers>>
    /\ UNCHANGED <<routeSelectedImages, routeTotalCards, matchedPairs, gameWon,
                   wonEvents, restarts, selVars, uiVars>>

\* the setTimeout callback of the match branch (800 ms), then the win effect
FireMatch(i) ==
    /\ CanFire(i)
    /\ timers[i].kind = "match"
    /\ LET t == timers[i]
       IN  /\ gameCards' = MarkMatched(gameCards, t.c1, t.c2)
           /\ flippedCards' = <<>>
           /\ matchedPairs' = matchedPairs + 1
           /\ isProcessing' = FALSE
           /\ timers' = RemoveAt(timers, i)
           /\ event' = Ev("match", t.c1)
    /\ IF WinEffectFires(gameCards', matchedPairs')
       THEN gameWon' = TRUE /\ wonEvents' = wonEvents + 1
       ELSE UNCHANGED <<gameWon, wonEvents>>
    /\ UNCHANGED <<routeSelectedImages, routeTotalCards, restarts, selVars, uiVars>>

\* a mismatch callback without setIsProcessing(false)
FireMismatch_KeepsLock(i) ==
    /\ CanFire(i)
    /\ timers[i].kind = "mismatch"
    /\ LET t == timers[i]
       IN  /\ gameCards' = FlipBack(gameCards, t.c1, t.c2)
           /\ flippedCards' = <<>>
           /\ timers' = RemoveAt(timers, i)
           /\ event' = Ev("mismatch", t.c1)
    /\ UNCHANGED <<routeSelectedImages, routeTotalCards, matchedPairs, gameWon,
                   wonEvents, restarts, isProcessing, selVars, uiVars>>

\* the setTimeout callback of the mismatch branch (1500 ms)
FireMismatch(i) ==
    /\ CanFire(i)
    /\ timers[i].kind = "mismatch"
    /\ LET t == timers[i]
       IN  /\ gameCards' = FlipBack(gameCards, t.c1, t.c2)
           /\ flippedCards' = <<>>
           /\ isProcessing' = FALSE
           /\ timers' = RemoveAt(timers, i)
           /\ event' = Ev("mismatch", t.c1)
    /\ UNCHANGED <<routeSelectedImages, routeTotalCards, matchedPairs, gameWon,
                   wonEvents, restarts, selVars, uiVars>>

\* a restart without setMatchedPairs(0) and setIsProcessing(false)
Restart_KeepsCounterAndLock ==
    /\ restarts < MaxRestarts
    /\ restarts' = restarts + 1
    /\ event' = Ev("restart", NoCard)
    /\ IF Len(routeSelectedImages) > 0
       THEN /\ gameCards' \in Decks(routeSelectedImages, routeTotalCards)
            /\ flippedCards' = <<>>
            /\ gameWon' = FALSE
            /\ wonEvents' = 0
            /\ UNCHANGED <<isProcessing, matchedPairs>>
       ELSE UNCHANGED <<gameCards, flippedCards, isProcessing, matchedPairs,
                        gameWon, wonEvents>>
    /\ UNCHANGED <<routeSelectedImages, routeTotalCards, timers, selVars, uiVars>>

\* handleRestart, then the win effect (matchedPairs is 0: it does nothing);
\* pending callbacks are not cancelled
Restart ==
    /\ restarts < MaxRestarts
    /\ restarts' = restarts + 1
    /\ event' = Ev("restart", NoCard)
    /\ IF Len(routeSelectedImages) > 0
       THEN /\ gameCards' \in Decks(routeSelectedImages, routeTotalCards)
            /\ flippedCards' = <<>>
            /\ isProcessing' = FALSE
            /\ matchedPairs' = 0
            /\ gameWon' = FALSE
            /\ wonEvents' = 0
       ELSE UNCHANGED <<gameCards, flippedCards, isProcessing, matchedPairs,
                        gameWon, wonEvents>>
    /\ UNCHANGED <<routeSelectedImages, routeTotalCards, timers, selVars, uiVars>>

\* ---------------------------------------------------- deck builder as a call
ImageSeqs == UNION {[1..n -> 1..MaxImages] : n \in 0..MaxImages}

DeckInit ==
    /\ routeSelectedImages \in ImageSeqs
    /\ routeTotalCards \in 0..MaxTotalCards
    /\ gameCards = <<>>
    /\ flippedCards = <<>>
    /\ isProcessing = FALSE
    /\ matchedPairs = 0
    /\ gameWon = FALSE
    /\ timers = <<>>
    /\ wonEvents = 0
    /\ restarts = 0
    /\ SelectionAbsent
    /\ CarouselIdle
    /\ HomeConfigured
    /\ screen = "Game"
    /\ event = Ev("init", NoCard)

\* one call createGameCards(selectedImages, totalCards)
BuildDeck ==
    /\ event.op = "init"
    /\ gameCards' \in Decks(routeSelectedImages, routeTotalCards)
    /\ event' = Ev("createGameCards", NoCard)
    /\ UNCHANGED <<routeSelectedImages, routeTotalCards, flippedCards,
                   isProcessing, matchedPairs, gameWon, timers, wonEvents,
                   restarts, selVars, uiVars>>

SpecDeck == DeckInit /\ [][BuildDeck]_vars

\* ------------------------------------------------- game session as rendered
Init ==
    /\ GameMounted
    /\ SelectionAbsent
    /\ CarouselIdle
    /\ HomeConfigured
    /\ screen = "Game"
    /\ event = Ev("init", NoCard)

Next ==
    \/ \E i \in DOMAIN gameCards : PressCard(i)
    \/ \E i \in DOMAIN timers : FireMatch(i)
    \/ \E i \in DOMAIN timers : FireMismatch(i)

Spec == Init /\ [][Next]_vars

\* ------------------------------- game session whose timers eventually fire
\* some pending setTimeout callback of handleCardPress runs
FireTimer == \E i \in DOMAIN timers : FireMatch(i) \/ FireMismatch(i)

\* the JavaScript timer queue runs every callback that stays due
SpecFair == Init /\ [][Next]_vars /\ WF_vars(FireTimer)

\* ------------------------------------- game session with handleRestart calls
NextRestart == Next \/ Restart

SpecRestart == Init /\ [][NextRestart]_vars

\* --------------------------------------------------------- selection screen
\* COPIES_COUNT: how often the carousel repeats availableImages
CopiesCount == 3

\* HomeScreen.handleNext: requiredImages = selectedGrid.totalCards / 2
RequiredImages == RequiredImagesFor(GridTotalCards)

\* getUniversalEmojis over a window of the emoji list: an item is named by the
\* numeric emoji id n, its id string is "emoji_" followed by the digits of n
Pool == [i \in 1..PoolSize |-> PoolFirst + i - 1]

\* the decimal digits of n, most significant first (template-string formatting)
RECURSIVE Digits(_)
Digits(n) == IF n < 10 THEN <<n>> ELSE Append(Digits(n \div 10), n % 10)

\* a.localeCompare(b) < 0 on digit strings: character by character, a proper
\* prefix first
RECURSIVE LexLess(_, _)
LexLess(a, b) ==
    IF b = <<>> THEN FALSE
    ELSE IF a = <<>> THEN TRUE
    ELSE IF Head(a) # Head(b) THEN Head(a) < Head(b)
    ELSE LexLess(Tail(a), Tail(b))

\* a.id.localeCompare(b.id) < 0 for the ids "emoji_<a>" and "emoji_<b>"
IdLess(a, b) == LexLess(Digits(a), Digits(b))

\* insert x after every element that does not compare greater (stable)
RECURSIVE InsertSorted(_, _)
InsertSorted(s, x) ==
    IF s = <<>> THEN <<x>>
    ELSE IF IdLess(x, Head(s)) THEN <<x>> \o s
    ELSE <<Head(s)>> \o InsertSorted(Tail(s), x)

\* Array.prototype.sort((a, b) => a.id.localeCompare(b.id)): a stable sort
RECURSIVE SortById(_)
SortById(s) ==
    IF s = <<>> THEN <<>>
    ELSE InsertSorted(SortById(SubSeq(s, 1, Len(s) - 1)), s[Len(s)])

\* createCircularCarouselData
CircularData(avail) ==
    IF Len(avail) = 0 THEN <<>>
    ELSE [k \in 1..(CopiesCount * Len(avail)) |->
             avail[((k - 1) % Len(avail)) + 1]]

\* renderCarouselItem: availableImages[circularIndex % availableImages.length]
OriginalImage(avail, circularIndex) == avail[(circularIndex % Len(avail)) + 1]

\* selectedImages.find(selected => selected.id === image.id)
IsSelected(sel, image) == \E i \in DOMAIN sel : sel[i] = image

\* a select guard without the slot limit
SelectAccepted_NoLimit(sel, image) == ~IsSelected(sel, image)

\* handleImageSelect: the two early returns
SelectAccepted(sel, image) ==
    /\ ~(Len(sel) >= RequiredImages)
    /\ ~IsSelected(sel, image)

\* setSelectedImages(prev => [...prev, image])
SelectedAfterSelect(sel, image) == Append(sel, image)

\* setAvailableImages(prev => prev.filter(item => item.id !== image.id))
AvailableAfterSelect(avail, image) == SelectSeq(avail, LAMBDA x : x # image)

\* setSelectedImages(prev => prev.filter(item => item.id !== image.id))
SelectedAfterDeselect(sel, image) == SelectSeq(sel, LAMBDA x : x # image)

\* a deselect that does not hand the image back to the carousel
AvailableAfterDeselect_NoReturn(avail, image) == avail

\* a deselect that appends the image without sorting
AvailableAfterDeselect_Append(avail, image) == Append(avail, image)

\* setAvailableImages(prev => [...prev, image].sort(byId))
AvailableAfterDeselect(avail, image) == SortById(Append(avail, image))

\* the images are loaded and nothing is selected yet
\* the selection-complete effect: it runs when selectedImages.length has
\* changed and starts or stops the flash animation of the Next button
FlashAfter(wasFlashing, before, after) ==
    IF Len(after) # Len(before)
    THEN Len(after) = RequiredImages
    ELSE wasFlashing

SelectionLoaded ==
    /\ availableImages = Pool
    /\ selectedImages = <<>>
    /\ selectTimers = <<>>

\* a tap on the carousel item at circularIndex: the TouchableOpacity of
\* renderCarouselItem, then handleImageSelect up to its setTimeout
TapCarouselItem(circularIndex) ==
    /\ screen = "Selection"
    /\ circularIndex \in 0..(Len(CircularData(availableImages)) - 1)
    /\ Len(selectTimers) < MaxPendingSelect
    /\ LET image == OriginalImage(availableImages, circularIndex)
       IN  /\ ~IsSelected(selectedImages, image)
           /\ event' = Ev("select", image)
           /\ IF SelectAccepted(selectedImages, image)
              THEN selectTimers' = Append(selectTimers, image)
              ELSE UNCHANGED selectTimers
    /\ UNCHANGED <<availableImages, selectedImages, gameVars, uiVars>>

\* the 150 ms callback of handleImageSelect; equal delays run in call order
FireSelect ==
    /\ Len(selectTimers) > 0
    /\ LET image == Head(selectTimers)
       IN  /\ selectedImages' = SelectedAfterSelect(selectedImages, image)
           /\ availableImages' = AvailableAfterSelect(availableImages, image)
           /\ event' = Ev("selectTimer", image)
    /\ selectTimers' = Tail(selectTimers)
    /\ flashing' = FlashAfter(flashing, selectedImages, selectedImages')
    /\ UNCHANGED <<gameVars, scrollX, repositionTimer, screen, homeVars>>

\* a tap on the filled selection slot i (0-based): handleImageDeselect
TapSelectionSlot(i) ==
    /\ screen = "Selection"
    /\ i \in 0..(RequiredImages - 1)
    /\ i < Len(selectedImages)
    /\ LET image == selectedImages[i + 1]
       IN  /\ selectedImages' = SelectedAfterDeselect(selectedImages, image)
           /\ availableImages' = AvailableAfterDeselect(availableImages, image)
           /\ event' = Ev("deselect", image)
    /\ flashing' = FlashAfter(flashing, selectedImages, selectedImages')
    /\ UNCHANGED <<selectTimers, gameVars, scrollX, repositionTimer, screen,
                   homeVars>>

SelectInit ==
    /\ SelectionLoaded
    /\ GameAbsent
    /\ CarouselIdle
    /\ HomeConfigured
    /\ screen = "Selection"
    /\ event = Ev("init", NoCard)

NextSelect ==
    \/ \E ci \in 0..(CopiesCount * PoolSize - 1) : TapCarouselItem(ci)
    \/ FireSelect
    \/ \E i \in 0..(RequiredImages - 1) : TapSelectionSlot(i)

SpecSelect == SelectInit /\ [][NextSelect]_vars

\* ------------------------------- handleImageDeselect called with any image
\* one call handleImageDeselect(image, index) with an image of the pool,
\* selected or not; at most one surplus item is let into availableImages
DeselectCall(image) ==
    /\ image \in Range(Pool)
    /\ Len(availableImages) <= PoolSize
    /\ selectedImages' = SelectedAfterDeselect(selectedImages, image)
    /\ availableImages' = AvailableAfterDeselect(availableImages, image)
    /\ event' = Ev("deselectCall", image)
    /\ flashing' = FlashAfter(flashing, selectedImages, selectedImages')
    /\ UNCHANGED <<selectTimers, gameVars, scrollX, repositionTimer, screen,
                   homeVars>>

NextDeselectCall ==
    \/ NextSelect
    \/ \E image \in Range(Pool) : DeselectCall(image)

SpecDeselectCall == SelectInit /\ [][NextDeselectCall]_vars

\* ------------------------------------------------- carousel (infinite scroll)
\* getCarouselDimensions on a narrow screen: itemSize clamps to its minimum
ItemSize == 80
ItemSpacing == (ItemSize * 15) \div 100
ItemWidth == ItemSize + ItemSpacing

\* const buffer = 5
Buffer == 5

\* Math.round(scrollX / itemWidth), scrollX >= 0
CurrentIndex(x) == (2 * x + ItemWidth) \div (2 * ItemWidth)

\* getMiddleCopyStartIndex
getMiddleCopyStartIndex(arrayLength) == arrayLength

\* a forward jump that always lands on the start of the middle copy
ForwardTarget_MiddleStart(currentIndex, arrayLength) ==
    getMiddleCopyStartIndex(arrayLength) * ItemWidth

\* return (currentIndex + arrayLength) * itemWidth
ForwardTarget(currentIndex, arrayLength) ==
    (currentIndex + arrayLength) * ItemWidth

\* a backward jump of two copies
BackTarget_TwoCopies(currentIndex, arrayLength) ==
    (currentIndex - 2 * arrayLength) * ItemWidth

\* return (currentIndex - arrayLength) * itemWidth
BackTarget(currentIndex, arrayLength) ==
    (currentIndex - arrayLength) * ItemWidth

\* an end test measured from the physical end of the three copies
NearEnd_PhysicalEnd(currentIndex, arrayLength) ==
    currentIndex >= (CopiesCount * arrayLength) - Buffer

\* currentIndex >= (2 * arrayLength) - buffer
NearEnd(currentIndex, arrayLength) ==
    currentIndex >= (2 * arrayLength) - Buffer

\* currentIndex < buffer
NearStart(currentIndex) == currentIndex < Buffer

\* null is <<>>, a new scroll position x is <<x>>
getRepositionedScrollX(x, arrayLength) ==
    LET currentIndex == CurrentIndex(x) IN
    IF NearStart(currentIndex)
    THEN <<ForwardTarget(currentIndex, arrayLength)>>
    ELSE IF NearEnd(currentIndex, arrayLength)
         THEN <<BackTarget(currentIndex, arrayLength)>>
         ELSE <<>>

\* the scroll offsets at which an item of the circular data is centred
MaxScrollX(arrayLength) == (CopiesCount * arrayLength - 1) * ItemWidth

\* handleScrollEnd on the initialised carousel, at the current offset
ScrollEnd ==
    /\ screen = "Selection"
    /\ Len(repositionTimer) < MaxPendingReposition
    /\ LET repositionX ==
              getRepositionedScrollX(scrollX, Len(availableImages)) IN
         /\ repositionTimer' =
               IF repositionX # <<>>
               THEN Append(repositionTimer, repositionX[1])
               ELSE repositionTimer
         /\ event' = Ev("scrollEnd", repositionX)
    /\ UNCHANGED <<scrollX, screen, flashing, homeVars, selVars, gameVars>>

\* the 100 ms callback of handleScrollEnd: scrollTo({ x: repositionX })
FireReposition ==
    /\ screen = "Selection"
    /\ repositionTimer # <<>>
    /\ scrollX' = Head(repositionTimer)
    /\ repositionTimer' = Tail(repositionTimer)
    /\ event' = Ev("reposition", <<Head(repositionTimer)>>)
    /\ UNCHANGED <<screen, flashing, homeVars, selVars, gameVars>>

\* the Selection screen with a carousel of 1..MaxCarouselLen items, the user
\* having stopped scrolling at any offset of the circular data
CarouselInit ==
    /\ GameAbsent
    /\ \E arrayLength \in 1..MaxCarouselLen :
          /\ availableImages = [i \in 1..arrayLength |-> i]
          /\ scrollX \in 0..MaxScrollX(arrayLength)
    /\ selectedImages = <<>>
    /\ selectTimers = <<>>
    /\ repositionTimer = <<>>
    /\ flashing = FALSE
    /\ HomeConfigured
    /\ screen = "Selection"
    /\ event = Ev("init", NoCard)

NextCarousel == ScrollEnd \/ FireReposition

SpecCarousel == CarouselInit /\ [][NextCarousel]_vars

\* ------------------------------------------ from the Selection screen to Game
\* the decks the init effect of GameScreen can store for its route params
InitEffectDecks(images, totalCards) ==
    IF Len(images) > 0 THEN Decks(images, totalCards) ELSE {<<>>}

\* a press on the enabled Next button: handleNext, then the mount of
\* GameScreen with its init effect and the first run of its win effect
HandleNext ==
    /\ screen = "Selection"
    /\ Len(selectedImages) = RequiredImages
    /\ flashing' = FALSE
    /\ screen' = "Game"
    /\ routeSelectedImages' = selectedImages
    /\ routeTotalCards' = GridTotalCards
    /\ gameCards' \in InitEffectDecks(selectedImages, GridTotalCards)
    /\ flippedCards' = <<>>
    /\ isProcessing' = FALSE
    /\ matchedPairs' = 0
    /\ gameWon' = WinEffectFires(gameCards', matchedPairs')
    /\ timers' = <<>>
    /\ wonEvents' = IF WinEffectFires(gameCards', matchedPairs') THEN 1 ELSE 0
    /\ restarts' = 0
    /\ event' = Ev("next", NoCard)
    /\ UNCHANGED <<selVars, scrollX, repositionTimer, homeVars>>

\* the stack navigator's back button on the Game screen: GameScreen unmounts,
\* the Selection screen below it shows its state as it was left
GoBack ==
    /\ screen = "Game"
    /\ screen' = "Selection"
    /\ routeSelectedImages' = <<>>
    /\ routeTotalCards' = 0
    /\ gameCards' = <<>>
    /\ flippedCards' = <<>>
    /\ isProcessing' = FALSE
    /\ matchedPairs' = 0
    /\ gameWon' = FALSE
    /\ timers' = <<>>
    /\ wonEvents' = 0
    /\ restarts' = 0
    /\ event' = Ev("back", NoCard)
    /\ UNCHANGED <<selVars, scrollX, repositionTimer, flashing, homeVars>>

NextFlow ==
    \/ NextSelect
    \/ HandleNext
    \/ GoBack

SpecFlow == SelectInit /\ [][NextFlow]_vars

\* ------------------------------------------- from the Home screen to Selection
\* the app as started: HomeScreen on step 1, nothing else mounted
HomeInit ==
    /\ screen = "Home"
    /\ home = HomeFresh
    /\ stepTimers = 0
    /\ route = NoRoute
    /\ GameAbsent
    /\ SelectionAbsent
    /\ CarouselIdle
    /\ event = Ev("init", NoCard)

NextHome ==
    \/ \E gridValue \in GridValues : HandleGridSelection(gridValue)
    \/ FireStep
    \/ \E sourceValue \in ImageSources :
          HandleImageSourceSelection(sourceValue)
    \/ HomeNext
    \/ HomeBack
    \/ SelectionBack

SpecHome == HomeInit /\ [][NextHome]_vars

\* ------------------------------------------------ the screens with any input
\* GameScreen mounted without route params: selectedImages and totalCards are
\* undefined, the init effect builds nothing, the win effect has run once
GameMountedBare ==
    /\ routeSelectedImages = <<>>
    /\ routeTotalCards = 0
    /\ gameCards \in InitEffectDecks(routeSelectedImages, routeTotalCards)
    /\ flippedCards = <<>>
    /\ isProcessing = FALSE
    /\ matchedPairs = 0
    /\ gameWon = WinEffectFires(gameCards, matchedPairs)
    /\ timers = <<>>
    /\ wonEvents = (IF WinEffectFires(gameCards, matchedPairs) THEN 1 ELSE 0)
    /\ restarts = 0

\* the load effect has delivered the first n images of the source
SelectionLoadedWith(n) ==
    /\ availableImages = SubSeq(Pool, 1, n)
    /\ selectedImages = <<>>
    /\ selectTimers = <<>>

\* either the Selection screen over a source of 0..MaxLoadedImages images, or
\* the Game screen on its own without route params
AppInit ==
    /\ CarouselIdle
    /\ HomeConfigured
    /\ event = Ev("init", NoCard)
    /\ \/ /\ screen = "Selection"
          /\ GameAbsent
          /\ \E n \in 0..MaxLoadedImages : SelectionLoadedWith(n)
       \/ /\ screen = "Game"
          /\ GameMountedBare
          /\ SelectionAbsent

NextApp ==
    \/ NextFlow
    \/ screen = "Game" /\ Next

SpecApp == AppInit /\ [][NextApp]_vars

\* ====================================================================== claims
PairIds(cards) == {cards[i].pairId : i \in DOMAIN cards}
CardsOfPair(cards, p) == {i \in DOMAIN cards : cards[i].pairId = p}
Ids(cards) == {cards[i].id : i \in DOMAIN cards}
FaceUpUnresolved(cards) ==
    {i \in DOMAIN cards : cards[i].isFlipped /\ ~cards[i].isMatched}
\* the step ran one pending callback of handleCardPress
TimerFired == Len(timers') = Len(timers) - 1

\* ---- C1
ValidDeckInput ==
    /\ routeTotalCards % 2 = 0
    /\ 2 * Len(routeSelectedImages) >= routeTotalCards

\* C1 - deck parity: for valid input (totalCards even, at least totalCards/2
\* images) the deck createGameCards returns has exactly totalCards cards and
\* exactly totalCards/2 distinct pairIds, each carried by exactly two cards.
C1_DeckParity ==
    (event.op = "createGameCards" /\ ValidDeckInput) =>
        /\ Len(gameCards) = routeTotalCards
        /\ 2 * Cardinality(PairIds(gameCards)) = routeTotalCards
        /\ \A p \in PairIds(gameCards) :
              Cardinality(CardsOfPair(gameCards, p)) = 2
        /\ Cardinality(Ids(gameCards)) = Len(gameCards)

C1_Witness ==
    /\ event.op = "createGameCards"
    /\ ValidDeckInput
    /\ routeTotalCards = 6
    /\ Len(routeSelectedImages) = 3
    /\ gameCards[1].pairId = 2
    /\ gameCards[2].pairId = 0

\* ---- C2
\* two face-up unresolved cards sharing a pairId are pending resolution
MatchPending ==
    /\ Len(flippedCards) = 2
    /\ flippedCards[1] \in Ids(gameCards)
    /\ flippedCards[2] \in Ids(gameCards)
    /\ LET a == CardById(gameCards, flippedCards[1])
           b == CardById(gameCards, flippedCards[2])
       IN  /\ a.isFlipped /\ ~a.isMatched
           /\ b.isFlipped /\ ~b.isMatched
           /\ a.id # b.id
           /\ a.pairId = b.pairId

\* C2 - match resolution: when the two face-up unresolved cards share a
\* pairId, the step in which the resolution pause fires leaves both cards
\* matched and still face-up, adds exactly 1 to the matched-pair counter,
\* empties the flipped list and releases the processing lock.
C2_MatchResolution ==
    [][(MatchPending /\ TimerFired) =>
          /\ \A k \in 1..2 :
                LET c == CardById(gameCards', flippedCards[k])
                IN  c.isMatched /\ c.isFlipped
          /\ matchedPairs' = matchedPairs + 1
          /\ flippedCards' = <<>>
          /\ isProcessing' = FALSE]_vars

C2_Witness ==
    /\ event.op = "match"
    /\ matchedPairs = 1
    /\ Cardinality({i \in DOMAIN gameCards :
                       gameCards[i].isMatched /\ gameCards[i].isFlipped}) = 2
    /\ flippedCards = <<>>
    /\ ~isProcessing

\* ---- C3
\* two face-up unresolved cards with different pairIds are pending resolution
MismatchPending ==
    /\ Len(flippedCards) = 2
    /\ flippedCards[1] \in Ids(gameCards)
    /\ flippedCards[2] \in Ids(gameCards)
    /\ LET a == CardById(gameCards, flippedCards[1])
           b == CardById(gameCards, flippedCards[2])
       IN  /\ a.isFlipped /\ ~a.isMatched
           /\ b.isFlipped /\ ~b.isMatched
           /\ a.pairId # b.pairId

\* C3 - mismatch resolution: when the two face-up unresolved cards have
\* different pairIds, the step in which the resolution pause fires leaves both
\* face-down and unmatched, the counter unchanged, every other card unchanged,
\* the flipped list empty and the processing lock released.
C3_MismatchResolution ==
    [][(MismatchPending /\ TimerFired) =>
          /\ \A k \in 1..2 :
                LET c == CardById(gameCards', flippedCards[k])
                IN  ~c.isFlipped /\ ~c.isMatched
          /\ matchedPairs' = matchedPairs
          /\ DOMAIN gameCards' = DOMAIN gameCards
          /\ \A i \in DOMAIN gameCards :
                gameCards[i].id \notin Range(flippedCards)
                    => gameCards'[i] = gameCards[i]
          /\ flippedCards' = <<>>
          /\ isProcessing' = FALSE]_vars

C3_Witness ==
    /\ event.op = "mismatch"
    /\ matchedPairs = 0
    /\ \A i \in DOMAIN gameCards :
          ~gameCards[i].isFlipped /\ ~gameCards[i].isMatched
    /\ flippedCards = <<>>
    /\ ~isProcessing

\* ---- C4
\* the engine is in Resolving: two cards face-up, the lock held, pause pending
Resolving ==
    /\ isProcessing
    /\ Len(flippedCards) = 2
    /\ Cardinality(FaceUpUnresolved(gameCards)) = 2
    /\ Len(timers) > 0

\* C4 - input lockout: while the engine is in Resolving, a flip attempt on a
\* third card changes neither the deck, the flipped list, the matched-pair
\* counter, the processing lock nor the win flag.
C4_InputLockout ==
    [][(Resolving /\ event'.op = "press"
                  /\ event'.card \notin Range(flippedCards)) =>
          UNCHANGED <<gameCards, flippedCards, matchedPairs, isProcessing,
                      gameWon, timers>>]_vars

C4_Witness ==
    /\ Resolving
    /\ event.op = "press"
    /\ event.card \notin Range(flippedCards)
    /\ ~CardById(gameCards, event.card).isFlipped

\* ---- C5
\* C5 - win trigger: the win flag becomes true in the step in which the
\* matched-pair counter reaches deckLength/2, it is not true before the
\* counter has reached that value, and a session has exactly one completion
\* event however often the win check runs again afterwards.
C5_WinTrigger ==
    /\ []((Len(gameCards) > 0 /\ 2 * matchedPairs = Len(gameCards)) => gameWon)
    /\ [](gameWon => 2 * matchedPairs >= Len(gameCards))
    /\ [](wonEvents = IF gameWon THEN 1 ELSE 0)
    /\ [][(~gameWon /\ gameWon') =>
             /\ 2 * matchedPairs' = Len(gameCards')
             /\ matchedPairs' = matchedPairs + 1]_vars

C5_Witness ==
    /\ gameWon
    /\ wonEvents = 1
    /\ 2 * matchedPairs > Len(gameCards)

\* ---- C7
\* C7 - card invariant: in every reachable state of a game session (taps,
\* timer firings, restarts) a matched card is face-up, every pairId of the
\* deck is carried by exactly two cards and the deck length is even.
C7_CardInvariant ==
    /\ \A i \in DOMAIN gameCards :
          gameCards[i].isMatched => gameCards[i].isFlipped
    /\ \A p \in PairIds(gameCards) :
          Cardinality(CardsOfPair(gameCards, p)) = 2
    /\ Len(gameCards) % 2 = 0

\* ---- C8
\* C8 - at most two unresolved cards: the number of face-up unmatched cards
\* is at most 2 and equals the length of the flipped list, whose entries are
\* exactly those cards.
C8_AtMostTwoUnresolved ==
    /\ Cardinality(FaceUpUnresolved(gameCards)) <= 2
    /\ Cardinality(FaceUpUnresolved(gameCards)) = Len(flippedCards)
    /\ Range(flippedCards) =
          {gameCards[i].id : i \in FaceUpUnresolved(gameCards)}

C8_Witness ==
    /\ Len(flippedCards) = 2
    /\ matchedPairs = 1
    /\ Cardinality(FaceUpUnresolved(gameCards)) = 2
    /\ event.op = "press"
    /\ event.card \notin Range(flippedCards)

\* ---- C6
\* C6 - selection disjointness: no item is in both availableImages and
\* selectedImages, and the items of the two lists together are exactly the
\* loaded pool.
C6_SelectionDisjoint ==
    /\ Range(availableImages) \cap Range(selectedImages) = {}
    /\ Range(availableImages) \cup Range(selectedImages) = Range(Pool)

C6_Witness ==
    /\ event.op = "deselect"
    /\ Len(selectedImages) = 1
    /\ Len(availableImages) = PoolSize - 1
    /\ availableImages # SelectSeq(Pool, LAMBDA x : x # selectedImages[1])

\* ---- C9
\* s with every occurrence of x taken out, the other items in their order
RECURSIVE Without(_, _)
Without(s, x) ==
    IF s = <<>> THEN <<>>
    ELSE IF Head(s) = x THEN Without(Tail(s), x)
    ELSE <<Head(s)>> \o Without(Tail(s), x)

\* C9 - select rule: a select of an item changes nothing, now or later, when
\* selected already holds requiredImages items or already contains the item;
\* otherwise its (delayed) update removes the item from available and appends
\* it at the end of selected, all other items keeping their relative order.
C9_SelectRule ==
    /\ [][event'.op = "select" =>
            /\ UNCHANGED <<availableImages, selectedImages>>
            /\ IF \/ Len(selectedImages) >= RequiredImages
                  \/ event'.card \in Range(selectedImages)
               THEN selectTimers' = selectTimers
               ELSE selectTimers' = selectTimers \o <<event'.card>>]_vars
    /\ [][selectTimers' # selectTimers /\ event'.op # "select" =>
            /\ selectTimers # <<>>
            /\ selectTimers' = Tail(selectTimers)
            /\ selectedImages' = selectedImages \o <<Head(selectTimers)>>
            /\ availableImages' = Without(availableImages, Head(selectTimers))]_vars
    /\ [][(selectedImages' # selectedImages /\ event'.op # "deselect") =>
            selectTimers' # selectTimers]_vars

C9_Witness ==
    /\ event.op = "selectTimer"
    /\ Len(selectedImages) = 2
    /\ selectedImages[2] = event.card
    /\ selectedImages[1] # event.card
    /\ event.card \notin Range(availableImages)
    /\ Len(availableImages) = PoolSize - 2

\* ---- C10
\* C10 - no duplicate slot: an image item appears at most once in
\* selectedImages in every reachable state.
C10_NoDuplicateSlot ==
    \A i, j \in DOMAIN selectedImages :
        i # j => selectedImages[i] # selectedImages[j]

\* ---- C11
\* C11 - slot bound: selectedImages never holds more than requiredImages
\* items in any reachable state.
C11_SlotBound == Len(selectedImages) <= RequiredImages

\* ---- C12
\* no item of s compares before an item in front of it
IsSortedById(s) ==
    \A i, j \in DOMAIN s : i < j => ~IdLess(s[j], s[i])

\* C12 - deselect order independence: a deselect removes the item from
\* selected and leaves available sorted by item id, and for any two selected
\* items deselecting them in either order gives the same available list.
C12_DeselectOrderIndependent ==
    /\ [](\A x, y \in Range(selectedImages) :
            AvailableAfterDeselect(AvailableAfterDeselect(availableImages, x), y)
              = AvailableAfterDeselect(AvailableAfterDeselect(availableImages, y), x))
    /\ [][event'.op = "deselect" =>
            /\ IsSortedById(availableImages')
            /\ event'.card \in Range(availableImages')
            /\ event'.card \notin Range(selectedImages')]_vars

C12_Witness ==
    /\ event.op = "deselect"
    /\ Len(selectedImages) = 1
    /\ Len(availableImages) = PoolSize - 1
    /\ IsSortedById(availableImages)
    /\ \E i \in 1..(Len(availableImages) - 1) :
          availableImages[i] > availableImages[i + 1]

\* ---- C13
\* C13 - select/deselect round trip: deselecting the item a select has just
\* moved restores availableImages to the order it had before the select, and
\* restores selectedImages.
C13_RoundTrip ==
    [][(event'.op = "selectTimer" /\ event'.card \in Range(availableImages)) =>
          /\ AvailableAfterDeselect(availableImages', event'.card)
                = availableImages
          /\ SelectedAfterDeselect(selectedImages', event'.card)
                = selectedImages]_vars

\* ---- C14
\* C14 - deselect of a non-selected item: a call of deselect with an item that
\* is not in selectedImages leaves availableImages and selectedImages
\* unchanged.
C14_DeselectNotSelected ==
    [][(event'.op = "deselectCall"
          /\ event'.card \notin Range(selectedImages)) =>
          UNCHANGED <<availableImages, selectedImages>>]_vars

\* ---- C15
CarouselLen == Len(availableImages)

\* handleScrollEnd has just run and asked for a new position
Repositioning == event.op = "scrollEnd" /\ event.card # <<>>

\* C15 - carousel remap identity: with 0 < buffer < L, whenever the
\* reposition function returns a new position, its index mod L equals the
\* current index mod L.
C15_RemapIdentity ==
    (Repositioning /\ 0 < Buffer /\ Buffer < CarouselLen) =>
        CurrentIndex(event.card[1]) % CarouselLen
            = CurrentIndex(scrollX) % CarouselLen

C15_Witness ==
    /\ Repositioning
    /\ Buffer < CarouselLen
    /\ CurrentIndex(scrollX) < Buffer
    /\ CurrentIndex(scrollX) # 0
    /\ CurrentIndex(event.card[1]) > CarouselLen

\* ---- C16
\* C16 - carousel edge rule: for an index below buffer the reposition
\* function returns the position of index + L; otherwise, for an index of at
\* least L*copies - buffer it returns the position of index - L; index 2 with
\* L = 140 gives index 142.
C16_EdgeRule ==
    /\ event.op = "scrollEnd" =>
         LET currentIndex == CurrentIndex(scrollX) IN
         /\ currentIndex < Buffer =>
              /\ event.card = <<(currentIndex + CarouselLen) * ItemWidth>>
              /\ CurrentIndex(event.card[1]) = currentIndex + CarouselLen
         /\ (currentIndex >= Buffer
               /\ currentIndex >= CarouselLen * CopiesCount - Buffer) =>
              /\ event.card = <<(currentIndex - CarouselLen) * ItemWidth>>
              /\ CurrentIndex(event.card[1]) = currentIndex - CarouselLen
    /\ getRepositionedScrollX(2 * ItemWidth, 140) = <<142 * ItemWidth>>

C16_Witness ==
    /\ Repositioning
    /\ CurrentIndex(scrollX) >= Buffer
    /\ CurrentIndex(scrollX) >= CarouselLen * CopiesCount - Buffer
    /\ CurrentIndex(event.card[1]) = CurrentIndex(scrollX) - CarouselLen

C18_RejectsInvalidConfiguration ==
    event.op = "createGameCards" =>
        /\ ValidDeckInput
        /\ Len(gameCards) = routeTotalCards

\* ---- C19
\* the cards of the deck that show the image
CardsOfImage(cards, image) == {i \in DOMAIN cards : cards[i].image = image}

\* C19 - no partial session: a game session is only created from exactly
\* requiredImages = totalCards/2 pairwise distinct images, and its board has
\* exactly totalCards cards with each image on exactly two cards.
C19_NoPartialSession ==
    screen = "Game" =>
        /\ 2 * Len(routeSelectedImages) = routeTotalCards
        /\ Len(routeSelectedImages) = RequiredImages
        /\ Cardinality(Range(routeSelectedImages)) = Len(routeSelectedImages)
        /\ Len(gameCards) = routeTotalCards
        /\ \A image \in Range(routeSelectedImages) :
              Cardinality(CardsOfImage(gameCards, image)) = 2

\* ---- C20
\* the selection has just become complete
SelectionCompleted ==
    /\ screen = "Selection"
    /\ Len(selectedImages) # RequiredImages
    /\ Len(selectedImages') = RequiredImages

\* C20 - auto-start: when the number of selected images becomes
\* requiredImages, the step that completes the selection navigates to the
\* Game screen, with no press of the Next button.
C20_AutoStart ==
    [][SelectionCompleted => screen' = "Game"]_vars

\* ---- C21
\* no image is available: the Selection screen holds none in any of its
\* lists, or the Game screen was given no selected image
ZeroImages ==
    \/ /\ screen = "Selection"
       /\ availableImages = <<>>
       /\ selectedImages = <<>>
       /\ selectTimers = <<>>
    \/ /\ screen = "Game"
       /\ routeSelectedImages = <<>>

\* C21 - zero images: with no image available there is no deck, no game
\* session is started, the win flag is not set, and every handler leaves the
\* engine in its empty state.
C21_ZeroImages ==
    /\ [](ZeroImages =>
            /\ gameCards = <<>>
            /\ gameWon = FALSE
            /\ matchedPairs = 0
            /\ flippedCards = <<>>
            /\ isProcessing = FALSE
            /\ timers = <<>>)
    /\ [][ZeroImages =>
            /\ gameCards' = <<>>
            /\ gameWon' = FALSE
            /\ (screen = "Selection" => screen' = "Selection")]_vars

C21_Witness ==
    /\ ZeroImages
    /\ screen = "Game"
    /\ event.op = "init"
    /\ gameCards = <<>>
    /\ gameWon = FALSE

\* ---- C22
\* the grid of the Selection screen is one of Home's grid options
RouteGrid == FindGridOption(route.gridSize)

\* C22 - grid configuration: the grid passed on by Home has
\* totalCards = rows*columns (2x2 -> 4, 4x4 -> 16, 6x6 -> 36) in Home's table
\* and in GameScreen's table, and the required image count passed to
\* selection is totalCards/2 (2, 8, 18), which is the number of slots.
C22_GridConfiguration ==
    screen = "Selection" =>
        LET onHome == RouteGrid
            onGame == getGridConfiguration(route.gridSize)
            layout == getSelectionLayout(route.gridSize, route.requiredImages)
        IN  /\ onHome.totalCards = onHome.rows * onHome.cols
            /\ onGame.totalCards = onGame.rows * onGame.columns
            /\ onGame.rows = onHome.rows
            /\ onGame.columns = onHome.cols
            /\ onGame.totalCards = onHome.totalCards
            /\ route.totalCards = onHome.totalCards
            /\ 2 * route.requiredImages = route.totalCards
            /\ layout.totalSlots = route.requiredImages
            /\ <<route.gridSize, route.totalCards, route.requiredImages>>
                  \in {<<"2x2", 4, 2>>, <<"4x4", 16, 8>>, <<"6x6", 36, 18>>}

C22_Witness ==
    /\ screen = "Selection"
    /\ event.op = "homeNext"
    /\ route.gridSize = "4x4"
    /\ route.requiredImages = 8
    /\ getGridConfiguration(route.gridSize).totalCards = 16

\* ---- C23
RECURSIVE Factorial(_)
Factorial(n) == IF n <= 1 THEN 1 ELSE n * Factorial(n - 1)

\* the pair list createGameCards shuffles for the current arguments
UnshuffledPairs == CardPairs(ImagesToUse(routeSelectedImages, routeTotalCards))

IsPermutationOf(deck, pairs) ==
    /\ Len(deck) = Len(pairs)
    /\ Range(deck) = Range(pairs)
    /\ Cardinality(Ids(deck)) = Len(deck)

\* C23 - unbiased shuffle: for a pair list of n cards the loop has n!
\* sequences of choices of j, they yield n! different decks, every one a
\* permutation of the pair list (so each ordering arises from exactly one
\* sequence), and the deck returned is a permutation of the pair list.
C23_UnbiasedShuffle ==
    LET n == Len(UnshuffledPairs) IN
    /\ event.op = "init" =>
          /\ Cardinality(ValidChoices(n)) = Factorial(n)
          /\ Cardinality(Decks(routeSelectedImages, routeTotalCards))
                = Factorial(n)
          /\ \A deck \in Decks(routeSelectedImages, routeTotalCards) :
                IsPermutationOf(deck, UnshuffledPairs)
    /\ event.op = "createGameCards" =>
          IsPermutationOf(gameCards, UnshuffledPairs)

C23_Witness ==
    /\ event.op = "createGameCards"
    /\ Len(gameCards) = 6
    /\ IsPermutationOf(gameCards, UnshuffledPairs)
    /\ gameCards[1] = UnshuffledPairs[6]
    /\ gameCards[6] = UnshuffledPairs[2]

\* ---- C24
\* the step was a tap on a card that was face-up or matched before it
DuplicateTap ==
    /\ event'.op = "press"
    /\ \E i \in DOMAIN gameCards :
          /\ gameCards[i].id = event'.card
          /\ (gameCards[i].isFlipped \/ gameCards[i].isMatched)

\* C24 - duplicate tap is ignored: a tap on a card that is already face-up or
\* matched changes nothing in any engine state; the flipped list never holds
\* a card twice and no resolution is ever scheduled for a card with itself.
C24_DuplicateTapIgnored ==
    /\ [][DuplicateTap =>
            UNCHANGED <<gameCards, flippedCards, isProcessing, matchedPairs,
                        gameWon, timers>>]_vars
    /\ [](/\ Cardinality(Range(flippedCards)) = Len(flippedCards)
          /\ \A i \in DOMAIN timers : timers[i].c1 # timers[i].c2)

C24_Witness ==
    /\ event.op = "press"
    /\ CardById(gameCards, event.card).isMatched
    /\ Len(flippedCards) = 1
    /\ isProcessing = FALSE
    /\ matchedPairs = 1

\* ---- C25
AllFaceDownUnmatched(cards) ==
    \A i \in DOMAIN cards : ~cards[i].isFlipped /\ ~cards[i].isMatched

\* C25 - restart resets the session: right after handleRestart with a
\* non-empty selection, from any engine state, the deck is a fresh deck of
\* totalCards cards all face-down and unmatched, the flipped list is empty,
\* the counter is 0, the lock is released and the win flag is false.
C25_RestartResets ==
    [][(event'.op = "restart" /\ Len(routeSelectedImages) > 0) =>
          /\ IsPermutationOf(gameCards', UnshuffledPairs)
          /\ Len(gameCards') = routeTotalCards
          /\ AllFaceDownUnmatched(gameCards')
          /\ flippedCards' = <<>>
          /\ matchedPairs' = 0
          /\ isProcessing' = FALSE
          /\ gameWon' = FALSE]_vars

C25_Witness ==
    /\ event.op = "restart"
    /\ Len(routeSelectedImages) > 0
    /\ timers # <<>>
    /\ Len(gameCards) = routeTotalCards
    /\ AllFaceDownUnmatched(gameCards)
    /\ isProcessing = FALSE

\* ---- C26
\* the number of images createGameCards takes for the current arguments
ImagesTaken ==
    IF Len(routeSelectedImages) < routeTotalCards \div 2
    THEN Len(routeSelectedImages) ELSE routeTotalCards \div 2

\* C26 - deck content: the deck createGameCards returns uses only the first
\* totalCards/2 images, in the order given; the cards with pairId k are
\* exactly two and both reference the k-th image; all card ids are pairwise
\* distinct and every card is face-down and unmatched.
C26_DeckContent ==
    event.op = "createGameCards" =>
        /\ PairIds(gameCards) = 0..(ImagesTaken - 1)
        /\ \A k \in PairIds(gameCards) :
              /\ Cardinality(CardsOfPair(gameCards, k)) = 2
              /\ \A i \in CardsOfPair(gameCards, k) :
                    gameCards[i].image = routeSelectedImages[k + 1]
        /\ Cardinality(Ids(gameCards)) = Len(gameCards)
        /\ Len(gameCards) = 2 * ImagesTaken
        /\ \A i \in DOMAIN gameCards :
              ~gameCards[i].isFlipped /\ ~gameCards[i].isMatched

C26_Witness ==
    /\ event.op = "createGameCards"
    /\ routeSelectedImages = <<2, 3, 1>>
    /\ routeTotalCards = 4
    /\ Len(gameCards) = 4
    /\ \A i \in DOMAIN gameCards : gameCards[i].image # 1
    /\ gameCards[1].pairId = 1 /\ gameCards[1].image = 3

\* ---- C27
\* C27 - safe middle zone: whenever the reposition function returns a new
\* position, for L at least twice the buffer, the new index lies in the
\* middle copy, L <= newIndex < 2L, and the function applied to the new
\* position returns no further reposition.
C27_SafeMiddleZone ==
    (Repositioning /\ CarouselLen >= 2 * Buffer) =>
        LET newIndex == CurrentIndex(event.card[1]) IN
        /\ CarouselLen <= newIndex
        /\ newIndex < 2 * CarouselLen
        /\ getRepositionedScrollX(event.card[1], CarouselLen) = <<>>

\* ---- C28
\* C28 - Resolving always ends: the step that takes the lock schedules
\* exactly one resolution timer, the lock is held only while that single
\* timer is pending, and, timers firing eventually, a held lock always leads
\* to the lock released with the flipped list empty.
C28_ResolvingEnds ==
    /\ [][(~isProcessing /\ isProcessing') =>
            /\ Len(timers') = Len(timers) + 1
            /\ Len(flippedCards') = 2]_vars
    /\ [](isProcessing => Len(timers) = 1)
    /\ (isProcessing ~> (~isProcessing /\ flippedCards = <<>>))

C28_Witness ==
    /\ event.op = "match"
    /\ isProcessing = FALSE
    /\ flippedCards = <<>>
    /\ timers = <<>>
    /\ 2 * matchedPairs = Len(gameCards)
    /\ gameWon = TRUE

\* ---- C29
\* a step in which the pending callback at position i runs
CallbackRuns(i) ==
    /\ i \in DOMAIN timers
    /\ timers' = RemoveAt(timers, i)
    /\ event'.op \in {"match", "mismatch"}

\* C29 - restart isolates sessions: when a resolution callback scheduled
\* before a handleRestart call runs after it, no card of the new deck
\* changes, the new session's matched-pair counter is not incremented, and
\* its flipped list and processing lock stay as they are.
C29_RestartIsolates ==
    [][\A i \in DOMAIN timers :
          (timers[i].session < restarts /\ CallbackRuns(i)) =>
              /\ gameCards' = gameCards
              /\ matchedPairs' = matchedPairs
              /\ flippedCards' = flippedCards
              /\ isProcessing' = isProcessing]_vars

\* ---- C30
MatchedCards(cards) == {i \in DOMAIN cards : cards[i].isMatched}

\* C30 - counter consistency: in every reachable state the matched-pair
\* counter is half the number of matched cards and at most deckLength/2, so
\* the win flag is set only when every card of the current deck is matched.
C30_CounterConsistency ==
    /\ 2 * matchedPairs = Cardinality(MatchedCards(gameCards))
    /\ 2 * matchedPairs <= Len(gameCards)
    /\ gameWon => MatchedCards(gameCards) = DOMAIN gameCards

====
